---- MODULE Spec2Model ----
(***************************************************************************)
(* The "if" keyword of the JSON Schema validator (src/keywords/if_.rs):    *)
(* the keyword-level compile, the three conditional nodes it builds        *)
(* (IfThenValidator, IfElseValidator, IfThenElseValidator) and their       *)
(* validate / is_valid.                                                    *)
(*                                                                         *)
(* A child validator is an opaque trait object.  For the instance under    *)
(* test it is characterised by the number of diagnostics its validate      *)
(* yields (0 .. MaxErrs); its is_valid answers true exactly when that      *)
(* number is 0.  A compiled collection (Validators) is a sequence of such  *)
(* children.  A diagnostic records the collection and the child it comes   *)
(* from, so that its origin and position can be checked.                   *)
(***************************************************************************)
EXTENDS Naturals, Sequences, FiniteSets

VARIABLES parent, result, op, errors, ret, calls

vars == <<parent, result, op, errors, ret, calls>>

\* Most child validators in the fragments of one parent taken together, most
\* diagnostics of one child.
MaxChildren == 4
MaxErrs == 2

ErrIds == {"e1", "e2"}

ChildValidators == 0..MaxErrs

RECURSIVE SeqsUpTo(_, _)
SeqsUpTo(S, n) ==
    IF n = 0 THEN {<<>>}
    ELSE LET shorter == SeqsUpTo(S, n - 1)
         IN  shorter \cup {Append(s, x) : s \in {t \in shorter : Len(t) = n - 1}, x \in S}

\* A schema fragment, seen through what compile_validators makes of it: a
\* compiled collection (of at most n children), or a compilation error.
Fragments(n) ==
    {[ok |-> TRUE, vs |-> vs, err |-> "none"] : vs \in SeqsUpTo(ChildValidators, n)}
        \cup {[ok |-> FALSE, vs |-> <<>>, err |-> e] : e \in ErrIds}

\* Option<&Value>: <<>> is None, <<f>> is Some(f).
Options(n) == {<<>>} \cup {<<f>> : f \in Fragments(n)}

OptSize(o) == IF Len(o) = 0 THEN 0 ELSE Len(o[1].vs)

(***************************************************************************)
(* Children: the Validate contract of an arbitrary child validator.        *)
(***************************************************************************)
ChildIsValid(v) == v = 0

ChildValidate(from, j, v) ==
    [k \in 1..v |-> [from |-> from, child |-> j, k |-> k]]

Call(on, j, method) == [on |-> on, child |-> j, method |-> method]

(***************************************************************************)
(* self.schema.iter().all(|validator| validator.is_valid(schema, instance))*)
(* from child j on; stops at the first child that is not valid.            *)
(***************************************************************************)
RECURSIVE AllValid(_, _)
AllValid(vs, j) ==
    IF j > Len(vs) THEN [result |-> TRUE, calls |-> <<>>]
    ELSE IF ChildIsValid(vs[j])
         THEN LET r == AllValid(vs, j + 1)
              IN  [result |-> r.result, calls |-> <<Call("if", j, "is_valid")>> \o r.calls]
         ELSE [result |-> FALSE, calls |-> <<Call("if", j, "is_valid")>>]

\* A variant of the "any" test that treats an empty condition as failing.
RECURSIVE AnyInvalidEmptyFails(_, _)
AnyInvalidEmptyFails(vs, j) ==
    IF j > Len(vs) THEN [result |-> Len(vs) = 0, calls |-> <<>>]
    ELSE IF ~ChildIsValid(vs[j])
         THEN [result |-> TRUE, calls |-> <<Call("if", j, "is_valid")>>]
         ELSE LET r == AnyInvalidEmptyFails(vs, j + 1)
              IN  [result |-> r.result, calls |-> <<Call("if", j, "is_valid")>> \o r.calls]

(***************************************************************************)
(* self.schema.iter().any(|validator| !validator.is_valid(schema, instance))*)
(* from child j on; stops at the first child that is not valid.            *)
(***************************************************************************)
RECURSIVE AnyInvalid(_, _)
AnyInvalid(vs, j) ==
    IF j > Len(vs) THEN [result |-> FALSE, calls |-> <<>>]
    ELSE IF ~ChildIsValid(vs[j])
         THEN [result |-> TRUE, calls |-> <<Call("if", j, "is_valid")>>]
         ELSE LET r == AnyInvalid(vs, j + 1)
              IN  [result |-> r.result, calls |-> <<Call("if", j, "is_valid")>> \o r.calls]

\* A variant of the flattening that emits the children's outputs last child first.
RECURSIVE FlatMapValidateReversed(_, _, _)
FlatMapValidateReversed(from, vs, j) ==
    IF j > Len(vs) THEN [errors |-> <<>>, calls |-> <<>>]
    ELSE LET r == FlatMapValidateReversed(from, vs, j + 1)
         IN  [errors |-> r.errors \o ChildValidate(from, j, vs[j]),
              calls  |-> <<Call(from, j, "validate")>> \o r.calls]

(***************************************************************************)
(* branch.iter().flat_map(|validator| validator.validate(..)).collect()    *)
(* from child j on.                                                        *)
(***************************************************************************)
RECURSIVE FlatMapValidate(_, _, _)
FlatMapValidate(from, vs, j) ==
    IF j > Len(vs) THEN [errors |-> <<>>, calls |-> <<>>]
    ELSE LET r == FlatMapValidate(from, vs, j + 1)
         IN  [errors |-> ChildValidate(from, j, vs[j]) \o r.errors,
              calls  |-> <<Call(from, j, "validate")>> \o r.calls]

NoError == <<>>

\* A variant of if+then that reports the then branch whatever the condition.
IfThenValidateUnconditional(node) ==
    LET c == AllValid(node.schema, 1)
        b == FlatMapValidate("then", node.then_schema, 1)
    IN  [errors |-> b.errors, calls |-> c.calls \o b.calls]

IfThenValidate(node) ==
    LET c == AllValid(node.schema, 1)
    IN  IF c.result
        THEN LET b == FlatMapValidate("then", node.then_schema, 1)
             IN  [errors |-> b.errors, calls |-> c.calls \o b.calls]
        ELSE [errors |-> NoError, calls |-> c.calls]

\* A variant of if+else that tests the condition without the negation.
IfElseValidateNotNegated(node) ==
    LET c == AllValid(node.schema, 1)
    IN  IF c.result
        THEN LET b == FlatMapValidate("else", node.else_schema, 1)
             IN  [errors |-> b.errors, calls |-> c.calls \o b.calls]
        ELSE [errors |-> NoError, calls |-> c.calls]

\* A variant of if+else that evaluates the condition with validate and reports
\* its diagnostics in front of the else branch's.
IfElseValidateReportsCond(node) ==
    LET c == FlatMapValidate("if", node.schema, 1)
    IN  IF c.errors # <<>>
        THEN LET b == FlatMapValidate("else", node.else_schema, 1)
             IN  [errors |-> c.errors \o b.errors, calls |-> c.calls \o b.calls]
        ELSE [errors |-> NoError, calls |-> c.calls]

IfElseValidate(node) ==
    LET c == AnyInvalid(node.schema, 1)
    IN  IF c.result
        THEN LET b == FlatMapValidate("else", node.else_schema, 1)
             IN  [errors |-> b.errors, calls |-> c.calls \o b.calls]
        ELSE [errors |-> NoError, calls |-> c.calls]

\* A variant of if+then+else with the two branches exchanged.
IfThenElseValidateSwapped(node) ==
    LET c == AllValid(node.schema, 1)
    IN  IF c.result
        THEN LET b == FlatMapValidate("else", node.else_schema, 1)
             IN  [errors |-> b.errors, calls |-> c.calls \o b.calls]
        ELSE LET b == FlatMapValidate("then", node.then_schema, 1)
             IN  [errors |-> b.errors, calls |-> c.calls \o b.calls]

IfThenElseValidate(node) ==
    LET c == AllValid(node.schema, 1)
    IN  IF c.result
        THEN LET b == FlatMapValidate("then", node.then_schema, 1)
             IN  [errors |-> b.errors, calls |-> c.calls \o b.calls]
        ELSE LET b == FlatMapValidate("else", node.else_schema, 1)
             IN  [errors |-> b.errors, calls |-> c.calls \o b.calls]

\* Dynamic dispatch of validate on the boxed node.
NodeValidate(node) ==
    CASE node.kind = "IfThen"     -> IfThenValidate(node)
      [] node.kind = "IfElse"     -> IfElseValidate(node)
      [] node.kind = "IfThenElse" -> IfThenElseValidate(node)

(***************************************************************************)
(* None of the three impl blocks defines is_valid, so a call to is_valid   *)
(* on a conditional node runs the provided method of the Validate trait:   *)
(* it runs the node's own validate and tests the sequence for emptiness.   *)
(***************************************************************************)
\* A variant of the provided is_valid that tests for a first diagnostic.
DefaultIsValidIsSome(node) ==
    LET r == NodeValidate(node)
    IN  [result |-> Len(r.errors) # 0,
         calls  |-> <<Call("self", 0, "validate")>> \o r.calls]

DefaultIsValid(node) ==
    LET r == NodeValidate(node)
    IN  [result |-> Len(r.errors) = 0,
         calls  |-> <<Call("self", 0, "validate")>> \o r.calls]

(***************************************************************************)
(* Compilation.                                                            *)
(***************************************************************************)
\* The recursive compiler, seen from here: Ok(collection) or Err(error).
CompileValidators(f) ==
    IF f.ok THEN [ok |-> TRUE, vs |-> f.vs, err |-> "none"]
    ELSE [ok |-> FALSE, vs |-> <<>>, err |-> f.err]

NoNode == [kind |-> "none", schema |-> <<>>, then_schema |-> <<>>, else_schema |-> <<>>]

CompileErr(e, log) == [tag |-> "Err", node |-> NoNode, err |-> e, log |-> log]
CompileOk(n, log) == [tag |-> "Ok", node |-> n, err |-> "none", log |-> log]
CompileNone == [tag |-> "None", node |-> NoNode, err |-> "none", log |-> <<>>]
Pending == [tag |-> "Pending", node |-> NoNode, err |-> "none", log |-> <<>>]

IfThenCompile(schema, then_schema) ==
    LET c == CompileValidators(schema)
    IN  IF ~c.ok THEN CompileErr(c.err, <<"if">>)
        ELSE LET t == CompileValidators(then_schema)
             IN  IF ~t.ok THEN CompileErr(t.err, <<"if", "then">>)
                 ELSE CompileOk([kind |-> "IfThen", schema |-> c.vs,
                                 then_schema |-> t.vs, else_schema |-> <<>>],
                                <<"if", "then">>)

IfElseCompile(schema, else_schema) ==
    LET c == CompileValidators(schema)
    IN  IF ~c.ok THEN CompileErr(c.err, <<"if">>)
        ELSE LET e == CompileValidators(else_schema)
             IN  IF ~e.ok THEN CompileErr(e.err, <<"if", "else">>)
                 ELSE CompileOk([kind |-> "IfElse", schema |-> c.vs,
                                 then_schema |-> <<>>, else_schema |-> e.vs],
                                <<"if", "else">>)

\* A variant of the if+then+else compile that compiles "else" before "then".
IfThenElseCompileElseFirst(schema, then_schema, else_schema) ==
    LET c == CompileValidators(schema)
    IN  IF ~c.ok THEN CompileErr(c.err, <<"if">>)
        ELSE LET e == CompileValidators(else_schema)
             IN  IF ~e.ok THEN CompileErr(e.err, <<"if", "else">>)
                 ELSE LET t == CompileValidators(then_schema)
                      IN  IF ~t.ok THEN CompileErr(t.err, <<"if", "else", "then">>)
                          ELSE CompileOk([kind |-> "IfThenElse", schema |-> c.vs,
                                          then_schema |-> t.vs, else_schema |-> e.vs],
                                         <<"if", "else", "then">>)

IfThenElseCompile(schema, then_schema, else_schema) ==
    LET c == CompileValidators(schema)
    IN  IF ~c.ok THEN CompileErr(c.err, <<"if">>)
        ELSE LET t == CompileValidators(then_schema)
             IN  IF ~t.ok THEN CompileErr(t.err, <<"if", "then">>)
                 ELSE LET e == CompileValidators(else_schema)
                      IN  IF ~e.ok THEN CompileErr(e.err, <<"if", "then", "else">>)
                          ELSE CompileOk([kind |-> "IfThenElse", schema |-> c.vs,
                                          then_schema |-> t.vs, else_schema |-> e.vs],
                                         <<"if", "then", "else">>)

\* A variant of the keyword-level compile that compiles the condition before it
\* looks at the parent's keys.
KeywordCompileEager(p, schema) ==
    LET c == CompileValidators(schema)
    IN  IF ~c.ok THEN CompileErr(c.err, <<"if">>)
        ELSE CASE Len(p.then) = 1 /\ Len(p.else) = 1 -> IfThenElseCompile(schema, p.then[1], p.else[1])
               [] Len(p.then) = 0 /\ Len(p.else) = 1 -> IfElseCompile(schema, p.else[1])
               [] Len(p.then) = 1 /\ Len(p.else) = 0 -> IfThenCompile(schema, p.then[1])
               [] Len(p.then) = 0 /\ Len(p.else) = 0 -> CompileNone

\* The keyword-level compile: p is the parent's "then"/"else" lookups, schema the
\* value of "if".
KeywordCompile(p, schema) ==
    CASE Len(p.then) = 1 /\ Len(p.else) = 1 -> IfThenElseCompile(schema, p.then[1], p.else[1])
      [] Len(p.then) = 0 /\ Len(p.else) = 1 -> IfElseCompile(schema, p.else[1])
      [] Len(p.then) = 1 /\ Len(p.else) = 0 -> IfThenCompile(schema, p.then[1])
      [] Len(p.then) = 0 /\ Len(p.else) = 0 -> CompileNone

(***************************************************************************)
(* The state machine.                                                      *)
(***************************************************************************)
Init ==
    /\ \E c \in Fragments(MaxChildren) :
         \E t \in Options(MaxChildren - Len(c.vs)) :
           \E e \in Options(MaxChildren - Len(c.vs) - OptSize(t)) :
             parent = [if |-> c, then |-> t, else |-> e]
    /\ result = Pending
    /\ op = "none"
    /\ errors = <<>>
    /\ ret = TRUE
    /\ calls = <<>>

Compile ==
    /\ result.tag = "Pending"
    /\ result' = KeywordCompile(parent, parent.if)
    /\ UNCHANGED <<parent, op, errors, ret, calls>>

Validate ==
    /\ result.tag = "Ok"
    /\ LET r == NodeValidate(result.node)
       IN  /\ errors' = r.errors
           /\ calls' = r.calls
    /\ op' = "validate"
    /\ UNCHANGED <<parent, result, ret>>

IsValid ==
    /\ result.tag = "Ok"
    /\ LET r == DefaultIsValid(result.node)
       IN  /\ ret' = r.result
           /\ calls' = r.calls
    /\ op' = "is_valid"
    /\ UNCHANGED <<parent, result, errors>>

Next == Compile \/ Validate \/ IsValid

Spec == Init /\ [][Next]_vars

(***************************************************************************)
(* Vocabulary of the properties.                                           *)
(***************************************************************************)
Node == result.node
C == Node.schema
T == Node.then_schema
E == Node.else_schema

Validated == result.tag = "Ok" /\ op = "validate"

\* Every validator of the condition answers is_valid = true.
CondHolds == \A j \in 1..Len(C) : ChildIsValid(C[j])

SomeFails(vs) == \E j \in 1..Len(vs) : ~ChildIsValid(vs[j])

\* The branch the evaluation table selects: "then", "else" or "none".
Selected ==
    IF CondHolds
    THEN IF Node.kind \in {"IfThen", "IfThenElse"} THEN "then" ELSE "none"
    ELSE IF Node.kind \in {"IfElse", "IfThenElse"} THEN "else" ELSE "none"

SelectedBranch ==
    CASE Selected = "then" -> T
      [] Selected = "else" -> E
      [] Selected = "none" -> <<>>

DiagsOf(from, vs) == FlatMapValidate(from, vs, 1).errors

\* C1: an if+then+else node yields T's diagnostics when every validator of C is
\* valid and E's diagnostics otherwise, so the result is empty exactly when the
\* selected branch has no diagnostics.
C1_IfThenElseSelects ==
    (Validated /\ Node.kind = "IfThenElse") =>
        /\ errors = IF CondHolds THEN DiagsOf("then", T) ELSE DiagsOf("else", E)
        /\ (errors = <<>>) <=> ~SomeFails(IF CondHolds THEN T ELSE E)

C1_Witness ==
    /\ Validated /\ Node.kind = "IfThenElse"
    /\ ~CondHolds /\ SomeFails(T) /\ SomeFails(E)
    /\ errors # <<>>

\* C2: an if+then node yields no diagnostics when some validator of C is not
\* valid, whatever T contains, and T's diagnostics when every validator of C is
\* valid.
C2_IfThenVacuous ==
    (Validated /\ Node.kind = "IfThen") =>
        errors = IF CondHolds THEN DiagsOf("then", T) ELSE <<>>

C2_Witness ==
    /\ Validated /\ Node.kind = "IfThen"
    /\ ~CondHolds /\ SomeFails(T)
    /\ errors = <<>>

\* C3: an if+else node yields E's diagnostics when not every validator of C is
\* valid and none when the condition holds; its "some validator fails" test
\* agrees with "not every validator holds" for every C, and with an empty C the
\* else branch is neither evaluated nor reported.
C3_IfElseCondition ==
    (Validated /\ Node.kind = "IfElse") =>
        /\ errors = IF ~CondHolds THEN DiagsOf("else", E) ELSE <<>>
        /\ AnyInvalid(C, 1).result = ~AllValid(C, 1).result
        /\ C = <<>> =>
              /\ errors = <<>>
              /\ \A i \in 1..Len(calls) : calls[i].on # "else"

C3_Witness ==
    /\ Validated /\ Node.kind = "IfElse"
    /\ C = <<>> /\ SomeFails(E)
    /\ errors = <<>>

C5_ConditionNotReported ==
    Validated =>
        /\ \A i \in 1..Len(calls) :
              /\ calls[i].on = "if" => calls[i].method = "is_valid"
              /\ calls[i].on # "if" => calls[i].on = Selected
        /\ \A p \in 1..Len(errors) : errors[p].from = Selected

C5_Witness ==
    /\ Validated /\ Node.kind = "IfElse"
    /\ Len(C) >= 1 /\ ~ChildIsValid(C[1])
    /\ errors # <<>>

\* C6: during is_valid of a conditional node, validate is never invoked on a
\* child validator of C, T or E.
C6_IsValidNeverValidates ==
    (result.tag = "Ok" /\ op = "is_valid") =>
        \A i \in 1..Len(calls) :
            calls[i].on \in {"if", "then", "else"} => calls[i].method # "validate"

\* The fragments the selected node shape needs, in the order condition, then, else.
Needed ==
    <<parent.if>> \o parent.then \o parent.else

FirstFailing ==
    IF \E i \in 1..Len(Needed) : ~Needed[i].ok
    THEN CHOOSE i \in 1..Len(Needed) :
            /\ ~Needed[i].ok
            /\ \A h \in 1..(i - 1) : Needed[h].ok
    ELSE 0

\* C7: compiling a conditional node fails when a fragment it needs fails to
\* compile: no node is returned and the error is that of the first failing
\* fragment in the order condition, then, else; the node is built only when
\* every needed fragment compiles.
C7_CompileFailsFast ==
    (result.tag # "Pending" /\ Len(Needed) > 1) =>
        IF FirstFailing = 0
        THEN result.tag = "Ok" /\ Node # NoNode
        ELSE /\ result.tag = "Err"
             /\ Node = NoNode
             /\ result.err = Needed[FirstFailing].err

C7_Witness ==
    /\ result.tag = "Err"
    /\ Len(parent.then) = 1 /\ Len(parent.else) = 1
    /\ parent.if.ok /\ ~parent.then[1].ok /\ ~parent.else[1].ok
    /\ parent.then[1].err # parent.else[1].err
    /\ result.err = parent.then[1].err

\* C8: an if+then node gives the diagnostics of an if+then+else node with the
\* same C and T and an empty else branch; an if+else node gives those of an
\* if+then+else node with the same C and E and an empty then branch.
C8_SpecializationEquivalent ==
    /\ (Validated /\ Node.kind = "IfThen") =>
          errors = IfThenElseValidate([kind |-> "IfThenElse", schema |-> C,
                                       then_schema |-> T, else_schema |-> <<>>]).errors
    /\ (Validated /\ Node.kind = "IfElse") =>
          errors = IfThenElseValidate([kind |-> "IfThenElse", schema |-> C,
                                       then_schema |-> <<>>, else_schema |-> E]).errors

C8_Witness ==
    /\ Validated /\ Node.kind = "IfThen"
    /\ CondHolds /\ Len(C) >= 1
    /\ errors # <<>>

FromChild(j) == SelectSeq(errors, LAMBDA d : d.child = j)

\* C9: when a branch is selected, the result is the concatenation, in child
\* order, of each child's own validate output: nothing dropped, duplicated,
\* added or reordered.
C9_BranchConcatenation ==
    (Validated /\ Selected # "none") =>
        /\ \A j \in 1..Len(SelectedBranch) :
              FromChild(j) = ChildValidate(Selected, j, SelectedBranch[j])
        /\ \A p \in 1..Len(errors) :
              /\ errors[p].from = Selected
              /\ errors[p].child \in 1..Len(SelectedBranch)
        /\ \A p, q \in 1..Len(errors) :
              p < q => errors[p].child <= errors[q].child

C9_Witness ==
    /\ Validated /\ Selected = "then"
    /\ Len(T) = 3 /\ T[1] = 2 /\ T[2] = 0 /\ T[3] = 1
    /\ Len(errors) = 3

\* C10: the keyword-level compile picks the node shape from which of "then" and
\* "else" are keys of the parent; with neither it returns None and compiles
\* nothing, so the condition fragment cannot make it fail.
C10_ShapeByPresence ==
    result.tag # "Pending" =>
        /\ (Len(parent.then) = 0 /\ Len(parent.else) = 0) <=> result.tag = "None"
        /\ result.tag = "None" => result.log = <<>>
        /\ result.tag = "Ok" =>
              Node.kind = CASE Len(parent.then) = 1 /\ Len(parent.else) = 1 -> "IfThenElse"
                            [] Len(parent.then) = 0 /\ Len(parent.else) = 1 -> "IfElse"
                            [] Len(parent.then) = 1 /\ Len(parent.else) = 0 -> "IfThen"

C10_Witness ==
    /\ result.tag = "None"
    /\ ~parent.if.ok
====
